---- MODULE Spec2Model ----
(***************************************************************************)
(* The analysis-and-alerting cycle of telegram-crypto-signals.             *)
(*                                                                         *)
(* app.py: load_exchange(exchange) builds a Behaviour and calls            *)
(* Behaviour.run, which fetches the candle data, evaluates the configured  *)
(* indicators, informants and crossovers for every pair, turns the result  *)
(* into alert messages (get_indicator_messages), prepares the charts and   *)
(* returns the messages, which load_exchange stores in new_results.        *)
(*                                                                         *)
(* Python dicts are functions, Python lists are sequences.  A position i   *)
(* of a Python list is position i + 1 of the sequence; every index the     *)
(* program shows or stores (indicator_number, key_indicator_index, the     *)
(* index of a history lookup) is kept 0-based as in the source.            *)
(***************************************************************************)
EXTENDS Integers, Sequences, FiniteSets, TLC

VARIABLES
    config,               \* app.py config: indicators, informants, crossovers
    market_data,          \* app.py market_data: exchange -> sequence of pairs
    fibonacci,            \* app.py fibonacci: exchange -> pairs with levels
    new_results,          \* app.py new_results: exchange -> stored message groups
    pc,                   \* position of load_exchange: idle, messages, done, fault
    exchange,             \* load_exchange: its argument
    fault,                \* the exception that left load_exchange ("" if none)
    all_historical_data,  \* Behaviour.all_historical_data: pair -> period -> series
    last_analysis,        \* Behaviour.last_analysis
    aliased,              \* last_analysis and new_analysis are one object
    new_analysis,         \* run: new_analysis of the exchange: pair -> kind -> name -> entries
    new_messages,         \* get_indicator_messages: new_messages[exchange]
    ohlcv_values,         \* get_indicator_messages: ohlcv_values[exchange]
    lrsi_values,          \* get_indicator_messages: lrsi_values[exchange]
    todo,                 \* get_indicator_messages: the loop iterations still ahead
    latest_result,        \* get_indicator_messages: local latest_result
    last_status,          \* get_indicator_messages: local last_status
    charts,               \* _create_charts: the (pair, period) charts requested
    consulted,            \* history: entry -> the last_status its lookup gave
    prev_status,          \* history: the statuses the previous cycle assigned
    prev_alerted,         \* history: the entries with a message in the previous output
    prev_ok,              \* history: the previous cycle returned its messages
    prog,                 \* history: per entry, progress through hot, hot, neutral
    fetched,              \* history: the requests for candle data of the run, in order
    calls,                \* history: the rule evaluations of the run, in order
    cycle,                \* load_exchanges: position of the scheduler's thread
    submissions,          \* load_exchanges: the exchanges submitted, in order
    units,                \* load_exchanges: exchange -> state of its future
    yielded,              \* load_exchanges: the futures as_completed has yielded
    users_market_data,    \* app.py users_market_data: the entry of the one user of
                          \* the alarm model, user_id -> entry in the market model
    users_exchanges,      \* app.py users_exchanges, kept as users_market_data is
    jobs,                 \* set_timeout: the repeating alarm jobs in the job queue
    chat_data,            \* set_timeout, unset: the chat's dict, job id -> job
    scheduled,            \* history: the jobs run_repeating has created so far
    last_command,         \* history: the latest /timeout or /unset and what it found
    produced,             \* history: exchange -> the cycle that stored its new_results
    cycles,               \* history: the cycles of load_exchanges so far
    alarms,               \* history: the alarm invocations so far
    last_alarm,           \* history: what the latest alarm invocation did
    delivered,            \* history: <<exchange, cycle>> -> alarms that handed it over
    settings,             \* app.py settings, the settings of the global config
    users_config,         \* app.py users_config: user_id -> the user's config
    users_indicators,     \* app.py users_indicators: user_id -> indicator -> periods
    update,               \* history: the latest command of a user and its replies
    notify_pc,            \* notify: idle, sending, returned or raised
    message_chunks,       \* notify: the chunks of the message
    attempt_number,       \* retry: the number of the attempt that is running
    position,             \* notify: the chunk the loop is at
    sent,                 \* history: the chunks send_message has sent, in order
    outcomes,             \* history: how each attempt ended, in order
    notify_error          \* notify: what the call raised

\* The variables of one load_exchange, of the pool of load_exchanges, and of
\* the user's alarm.
runvars == <<pc, exchange, fault, all_historical_data, last_analysis, aliased,
             new_analysis, new_messages, ohlcv_values, lrsi_values, todo,
             latest_result, last_status, charts, consulted, prev_status,
             prev_alerted, prev_ok, prog, fetched, calls>>
poolvars == <<cycle, submissions, units, yielded>>
alarmvars == <<users_market_data, users_exchanges, jobs, chat_data, scheduled,
               last_command, produced, cycles, alarms, last_alarm, delivered>>

marketvars == <<settings, users_config, users_indicators, update>>

notifyvars == <<notify_pc, message_chunks, attempt_number, position, sent, outcomes,
                notify_error>>

vars == <<config, market_data, fibonacci, new_results, runvars, poolvars, alarmvars,
          marketvars, notifyvars>>

-----------------------------------------------------------------------------
(* Names and small sets *)

Exchanges == {"binance", "bittrex"}
Pairs == <<"BTC/USDT">>

\* The bounds of the model: the candle periods a configuration may name and
\* the signals an indicator conf lists.
NumPeriods == 2
NumSignals == 1

PeriodNames == <<"1h", "4h", "1d">>
SignalNames == <<"value", "signal", "histogram">>
Periods == { PeriodNames[i] : i \in 1..NumPeriods }

\* The dict order of config.indicators / informants / crossovers.
IndicatorOrder == <<"no_such_indicator", "rsi", "macd">>
InformantOrder == <<"no_such_informant", "ohlcv", "lrsi">>
CrossoverOrder == <<"no_such_crossover", "std_crossover">>

\* StrategyAnalyzer's dispatch tables (analysis.py is not among the sources).
indicator_dispatcher == {"rsi", "macd"}
informant_dispatcher == {"ohlcv", "lrsi"}
crossover_dispatcher == {"std_crossover"}

EmptyDict == <<>>
NoStatus == ""
Unbound == [df |-> FALSE, rows |-> 0, is_hot |-> FALSE, is_cold |-> FALSE]
EmptyString == [df |-> FALSE, rows |-> 0, is_hot |-> FALSE, is_cold |-> FALSE]

\* A result: a DataFrame (df) of `rows` rows whose latest row carries the
\* flags, or the str() that _get_analysis_result returns on a TypeError.
DataFrame(h, c) == [df |-> TRUE, rows |-> 1, is_hot |-> h, is_cold |-> c]
EmptyFrame == [df |-> TRUE, rows |-> 0, is_hot |-> FALSE, is_cold |-> FALSE]

\* The elements of a sequence.
Range(s) == {s[i] : i \in DOMAIN s}

\* The names of `order` that are keys of dict d, in dict order.
Keys(order, d) == SelectSeq(order, LAMBDA n : n \in DOMAIN d)

RECURSIVE Flatten(_)
Flatten(ss) == IF ss = <<>> THEN <<>> ELSE Head(ss) \o Flatten(Tail(ss))

-----------------------------------------------------------------------------
(* Configuration *)

IndicatorConf(en, p, f, a) ==
    [enabled |-> en, candle_period |-> p, alert_frequency |-> f,
     alert_enabled |-> a, signal |-> SubSeq(SignalNames, 1, NumSignals)]

InformantConf(en, p, s) ==
    [enabled |-> en, candle_period |-> p, signal |-> <<s>>]

\* A crossover names its two sources; it has no candle_period.
CrossoverConf(en, f, a) ==
    [enabled |-> en, alert_frequency |-> f, alert_enabled |-> a,
     key_indicator_type |-> "indicators", key_indicator |-> "rsi",
     key_indicator_index |-> 0, key_signal |-> "value",
     crossed_indicator_type |-> "informants", crossed_indicator |-> "ohlcv",
     crossed_indicator_index |-> 0, crossed_signal |-> "close"]

Frequencies == {"once", "always"}

Informants ==
    [ohlcv |-> <<InformantConf(TRUE, "1h", "close")>>,
     lrsi |-> <<InformantConf(TRUE, "1h", "lrsi")>>]

\* The template of config.notifiers is kept as the set of indicator names
\* for whose entries rendering it raises.
Config(rsi, macd, crossover) ==
    [indicators |-> [rsi |-> rsi, macd |-> macd],
     informants |-> Informants,
     crossovers |-> [std_crossover |-> crossover],
     template |-> {}]

\* The configurations checked: rsi on 1h with every alert policy; beside an
\* always-alerting rsi, a macd entry on the same period, or a crossover of
\* rsi and ohlcv, enabled or not; a crossover of a disabled rsi.
Configs ==
    { Config(<<IndicatorConf(TRUE, "1h", f, a)>>, <<>>, <<>>) :
        f \in Frequencies, a \in BOOLEAN }
    \cup
    { Config(<<IndicatorConf(TRUE, "1h", "always", TRUE)>>,
             <<IndicatorConf(TRUE, "1h", "always", TRUE)>>, <<>>) }
    \cup
    { Config(<<IndicatorConf(TRUE, "1h", "always", TRUE)>>, <<>>,
             <<CrossoverConf(en, "always", TRUE)>>) : en \in BOOLEAN }
    \cup
    { Config(<<IndicatorConf(FALSE, "1h", "always", TRUE)>>, <<>>,
             <<CrossoverConf(TRUE, "always", TRUE)>>) }

\* rsi alone, alerting always.
PlainConfig == Config(<<IndicatorConf(TRUE, "1h", "always", TRUE)>>, <<>>, <<>>)

\* rsi beside an indicator, an informant and a crossover whose names are in
\* no dispatch table.
UnknownConfig ==
    [indicators |-> ("no_such_indicator" :> <<IndicatorConf(TRUE, "4h", "always", TRUE)>>)
                    @@ ("rsi" :> <<IndicatorConf(TRUE, "1h", "always", TRUE)>>),
     informants |-> ("no_such_informant" :> <<InformantConf(TRUE, "1h", "close")>>)
                    @@ Informants,
     crossovers |-> ("no_such_crossover" :> <<CrossoverConf(TRUE, "always", TRUE)>>),
     template |-> {}]

\* rsi with a disabled conf on 1h before its enabled conf on 4h; the
\* informants are on 1h, a period no enabled indicator conf names.
ShiftedConfig ==
    Config(<<IndicatorConf(FALSE, "1h", "always", TRUE),
             IndicatorConf(TRUE, "4h", "always", TRUE)>>, <<>>, <<>>)

\* rsi on 1h and macd on 4h, both alerting always, with a template whose
\* rendering raises for the entries of rsi.
BrokenTemplateConfig ==
    [Config(<<IndicatorConf(TRUE, "1h", "always", TRUE)>>,
            <<IndicatorConf(TRUE, "4h", "always", TRUE)>>, <<>>)
        EXCEPT !.template = {"rsi"}]

\* The configurations with the markets they run on: one pair of one exchange,
\* and the plain configuration on two exchanges.
Setups ==
    { [config |-> c, market_data |-> ("binance" :> Pairs)] :
        c \in Configs \cup {UnknownConfig, ShiftedConfig, BrokenTemplateConfig} }
    \cup { [config |-> PlainConfig, market_data |-> [e \in Exchanges |-> Pairs]] }

-----------------------------------------------------------------------------
(* Behaviour.get_all_historical_data and _get_historical_data *)

\* What a request to the exchange can give: candles, an empty series, or
\* one of the exceptions _get_historical_data catches (of which the runs
\* here raise the first).
FetchFailures == {"RetryError", "ExchangeError", "ValueError", "AttributeError"}
FetchOutcomes == {"candles", "empty", "RetryError"}
Candles == <<"ohlcv">>

\* ExchangeInterface.get_historical_data returns a series, perhaps an empty
\* one; an exception caught here leaves historical_data = list() as well.
get_historical_data(outcome) ==
    IF outcome = "candles" THEN Candles ELSE <<>>

\* A variant of the dispatch-table test that lets every name through.
RegisteredAlways(name, dispatcher) == TRUE

\* `if indicator not in indicator_dispatcher: ... continue`, negated.
Registered(name, dispatcher) == name \in dispatcher

\* The confs of the registered names of a kind, in iteration order, each with
\* its name and its 0-based position in the name's list.
ConfsInOrder(order, conf, dispatcher) ==
    LET names == SelectSeq(Keys(order, conf), LAMBDA n : Registered(n, dispatcher))
    IN  Flatten([k \in 1..Len(names) |->
            [i \in 1..Len(conf[names[k]]) |->
                [name |-> names[k], index |-> i - 1, conf |-> conf[names[k]][i]]]])

RECURSIVE HistoricalDataOfPair(_, _, _, _)
HistoricalDataOfPair(confs, data, market_pair, fetch) ==
    IF confs = <<>> THEN data
    ELSE LET indicator_conf == Head(confs).conf
             candle_period == indicator_conf.candle_period
             candle_data == get_historical_data(fetch[<<market_pair, candle_period>>])
         IN  IF indicator_conf.enabled /\ candle_period \notin DOMAIN data
                  /\ Len(candle_data) # 0
             THEN HistoricalDataOfPair(Tail(confs),
                      data @@ (candle_period :> candle_data), market_pair, fetch)
             ELSE HistoricalDataOfPair(Tail(confs), data, market_pair, fetch)

\* The requests get_all_historical_data makes to _get_historical_data for one
\* pair, in order: a conf asks when its period is not yet a key of data.
RECURSIVE RequestsOfPair(_, _, _, _)
RequestsOfPair(confs, data, market_pair, fetch) ==
    IF confs = <<>> THEN <<>>
    ELSE LET indicator_conf == Head(confs).conf
             candle_period == indicator_conf.candle_period
             outcome == fetch[<<market_pair, candle_period>>]
             candle_data == get_historical_data(outcome)
         IN  IF indicator_conf.enabled /\ candle_period \notin DOMAIN data
             THEN <<[market_pair |-> market_pair, candle_period |-> candle_period,
                     outcome |-> outcome]>>
                  \o RequestsOfPair(Tail(confs),
                         IF Len(candle_data) # 0
                         THEN data @@ (candle_period :> candle_data) ELSE data,
                         market_pair, fetch)
             ELSE RequestsOfPair(Tail(confs), data, market_pair, fetch)

Requests(pairs, fetch) ==
    Flatten([k \in 1..Len(pairs) |->
        RequestsOfPair(
            ConfsInOrder(IndicatorOrder, config.indicators, indicator_dispatcher),
            EmptyDict, pairs[k], fetch)])

get_all_historical_data(pairs, fetch) ==
    [market_pair \in Range(pairs) |->
        HistoricalDataOfPair(
            ConfsInOrder(IndicatorOrder, config.indicators, indicator_dispatcher),
            EmptyDict, market_pair, fetch)]

\* The (pair, period) combinations a run may ask the exchange for.
FetchKeys(pairs) ==
    { <<p, c.conf.candle_period>> :
        p \in Range(pairs),
        c \in { x \in Range(ConfsInOrder(IndicatorOrder, config.indicators,
                                         indicator_dispatcher)) : x.conf.enabled } }

-----------------------------------------------------------------------------
(* Behaviour._test_strategies and the three evaluators *)

Entry(result, conf) == [result |-> result, config |-> conf, status |-> NoStatus]

\* _get_indicator_results / _get_informant_results: one entry per enabled
\* conf whose candle period is cached; res gives what the rule returned.
RECURSIVE EvaluatedEntries(_, _, _, _, _, _)
EvaluatedEntries(confs, i, cache, kind, name, resOf) ==
    IF i > Len(confs) THEN <<>>
    ELSE LET c == confs[i]
             rest == EvaluatedEntries(confs, i + 1, cache, kind, name, resOf)
         IN  IF c.enabled /\ c.candle_period \in DOMAIN cache
                  /\ Len(cache[c.candle_period]) # 0
             THEN <<Entry(resOf[<<kind, name, i - 1>>], c)>> \o rest
             ELSE rest

get_indicator_results(cache, resOf) ==
    [indicator \in DOMAIN config.indicators |->
        IF ~Registered(indicator, indicator_dispatcher) THEN <<>>
        ELSE EvaluatedEntries(config.indicators[indicator], 1, cache,
                              "indicators", indicator, resOf)]

get_informant_results(cache, resOf) ==
    [informant \in DOMAIN config.informants |->
        IF ~Registered(informant, informant_dispatcher) THEN <<>>
        ELSE EvaluatedEntries(config.informants[informant], 1, cache,
                              "informants", informant, resOf)]

\* new_result[type][name][index] of _get_crossover_results: "" when it
\* resolves, else the exception the subscript raises.
RefError(new_result, type, name, index) ==
    IF type \notin DOMAIN new_result THEN "KeyError"
    ELSE IF name \notin DOMAIN new_result[type] THEN "KeyError"
    ELSE IF index + 1 > Len(new_result[type][name]) THEN "IndexError"
    ELSE ""

CrossoverError(new_result, c) ==
    LET k == RefError(new_result, c.key_indicator_type, c.key_indicator,
                      c.key_indicator_index)
    IN  IF k # "" THEN k
        ELSE RefError(new_result, c.crossed_indicator_type, c.crossed_indicator,
                      c.crossed_indicator_index)

EnabledCrossovers ==
    SelectSeq(ConfsInOrder(CrossoverOrder, config.crossovers, crossover_dispatcher),
              LAMBDA x : x.conf.enabled)

\* _get_crossover_results: [error, results]; the first unresolved reference
\* raises out of the method.
get_crossover_results(new_result, resOf) ==
    LET xs == EnabledCrossovers
        bad == { k \in 1..Len(xs) : CrossoverError(new_result, xs[k].conf) # "" }
    IN  IF bad # {}
        THEN [error |-> CrossoverError(new_result,
                            xs[CHOOSE k \in bad : \A j \in bad : k <= j].conf),
              results |-> EmptyDict]
        ELSE [error |-> "",
              results |->
                [crossover \in DOMAIN config.crossovers |->
                    LET mine == SelectSeq(xs, LAMBDA x : x.name = crossover)
                    IN  [k \in 1..Len(mine) |->
                            Entry(resOf[<<"crossovers", crossover, mine[k].index>>],
                                  mine[k].conf)]]]

\* The dispatcher calls of _get_indicator_results / _get_informant_results,
\* in order: the conf called and the slot its entry takes in results[name].
RECURSIVE EvaluatorCalls(_, _, _, _)
EvaluatorCalls(confs, cache, kind, sofar) ==
    IF confs = <<>> THEN sofar
    ELSE LET c == Head(confs)
             slot == Cardinality({ i \in DOMAIN sofar : sofar[i].name = c.name })
         IN  EvaluatorCalls(Tail(confs), cache, kind,
                 IF c.conf.enabled /\ c.conf.candle_period \in DOMAIN cache
                      /\ Len(cache[c.conf.candle_period]) # 0
                 THEN Append(sofar, [kind |-> kind, name |-> c.name, index |-> c.index,
                                     slot |-> slot, config |-> c.conf, outcome |-> ""])
                 ELSE sofar)

\* The crossovers _get_crossover_results reaches, in order: each enabled
\* conf up to and including the first whose reference raises.
CrossoverCalls(new_result) ==
    LET xs == EnabledCrossovers
        bad == { k \in 1..Len(xs) : CrossoverError(new_result, xs[k].conf) # "" }
        last == IF bad = {} THEN Len(xs) ELSE CHOOSE k \in bad : \A j \in bad : k <= j
    IN  [k \in 1..last |->
            [kind |-> "crossovers", name |-> xs[k].name, index |-> xs[k].index,
             slot |-> Cardinality({ j \in 1..(k - 1) : xs[j].name = xs[k].name }),
             config |-> xs[k].conf,
             outcome |-> CrossoverError(new_result, xs[k].conf)]]

\* The analysis of one pair: indicators, informants, then crossovers.
AnalysisOfPair(cache, resOf) ==
    LET ind == get_indicator_results(cache, resOf)
        inf == get_informant_results(cache, resOf)
        cro == get_crossover_results([indicators |-> ind, informants |-> inf], resOf)
    IN  [error |-> cro.error,
         result |-> [indicators |-> ind, informants |-> inf,
                     crossovers |-> cro.results]]

\* _test_strategies: [error, result]; an exception ends the loop over pairs.
test_strategies(pairs, data, res) ==
    LET per == [p \in Range(pairs) |-> AnalysisOfPair(data[p], res[p])]
        bad == { k \in 1..Len(pairs) : per[pairs[k]].error # "" }
    IN  [error |-> IF bad = {} THEN ""
                   ELSE per[pairs[CHOOSE k \in bad : \A j \in bad : k <= j]].error,
         result |-> [p \in Range(pairs) |-> per[p].result]]

\* The rule evaluations a run makes for one pair, given its candle cache.
EvalKeys(kind, order, conf, dispatcher, cache) ==
    { <<kind, x.name, x.index>> :
        x \in { y \in Range(ConfsInOrder(order, conf, dispatcher)) :
                  /\ y.conf.enabled
                  /\ kind # "crossovers" => y.conf.candle_period \in DOMAIN cache } }

\* What a rule can return: no rows, or rows whose latest row carries the
\* flags (an informant's rows carry none).
ResultChoices(kind) ==
    IF kind = "informants" THEN {DataFrame(FALSE, FALSE)}
    ELSE (IF kind = "indicators" THEN {EmptyString} ELSE {})
         \cup {EmptyFrame} \cup { DataFrame(h, c) : h \in BOOLEAN, c \in BOOLEAN }

ResultsOfPair(cache) ==
    { ri @@ rf @@ rc :
        ri \in [EvalKeys("indicators", IndicatorOrder, config.indicators,
                         indicator_dispatcher, cache) -> ResultChoices("indicators")],
        rf \in [EvalKeys("informants", InformantOrder, config.informants,
                         informant_dispatcher, cache) -> ResultChoices("informants")],
        rc \in [EvalKeys("crossovers", CrossoverOrder, config.crossovers,
                         crossover_dispatcher, cache) -> ResultChoices("crossovers")] }

\* A variant of the order of evaluation: crossovers before the indicators
\* and informants.
CallsOfPairCrossoversFirst(cache) ==
    LET resOf == [k \in EvalKeys("indicators", IndicatorOrder, config.indicators,
                                 indicator_dispatcher, cache)
                        \cup EvalKeys("informants", InformantOrder, config.informants,
                                      informant_dispatcher, cache) |-> EmptyFrame]
    IN  CrossoverCalls([indicators |-> get_indicator_results(cache, resOf),
                        informants |-> get_informant_results(cache, resOf)])
        \o EvaluatorCalls(ConfsInOrder(IndicatorOrder, config.indicators,
                                       indicator_dispatcher), cache, "indicators", <<>>)
        \o EvaluatorCalls(ConfsInOrder(InformantOrder, config.informants,
                                       informant_dispatcher), cache, "informants", <<>>)

\* The rule evaluations of one pair in the order _test_strategies makes
\* them: indicators, informants, then crossovers over the results so far.
CallsOfPair(cache) ==
    LET resOf == [k \in EvalKeys("indicators", IndicatorOrder, config.indicators,
                                 indicator_dispatcher, cache)
                        \cup EvalKeys("informants", InformantOrder, config.informants,
                                      informant_dispatcher, cache) |-> EmptyFrame]
    IN  EvaluatorCalls(ConfsInOrder(IndicatorOrder, config.indicators,
                                    indicator_dispatcher), cache, "indicators", <<>>)
        \o EvaluatorCalls(ConfsInOrder(InformantOrder, config.informants,
                                       informant_dispatcher), cache, "informants", <<>>)
        \o CrossoverCalls([indicators |-> get_indicator_results(cache, resOf),
                           informants |-> get_informant_results(cache, resOf)])

\* The rule evaluations of a run, pair by pair, up to the first exception.
RECURSIVE Calls(_, _)
Calls(pairs, data) ==
    IF pairs = <<>> THEN <<>>
    ELSE LET mine == CallsOfPair(data[Head(pairs)])
             tagged == [i \in 1..Len(mine) |->
                           [market_pair |-> Head(pairs), call |-> mine[i]]]
         IN  IF \E i \in 1..Len(mine) : mine[i].outcome # ""
             THEN tagged
             ELSE tagged \o Calls(Tail(pairs), data)

\* What the rules can return in one run: pair -> evaluation -> result.
RECURSIVE ResultsOfPairs(_, _)
ResultsOfPairs(pairs, data) ==
    IF pairs = <<>> THEN {EmptyDict}
    ELSE { (Head(pairs) :> r) @@ rest :
             r \in ResultsOfPair(data[Head(pairs)]),
             rest \in ResultsOfPairs(Tail(pairs), data) }

-----------------------------------------------------------------------------
(* Behaviour.get_indicator_messages *)

\* d[k] = v on a dict.
Put(d, k, v) == [x \in DOMAIN d \cup {k} |-> IF x = k THEN v ELSE d[x]]

\* Behaviour.__init__: the fields a new Behaviour starts with.
BehaviourInit == [all_historical_data |-> EmptyDict, last_analysis |-> EmptyDict]

\* `if not self.last_analysis: self.last_analysis = new_analysis` binds the
\* field to the very dict the loop below writes the statuses into.
AliasesNewAnalysis(last) == last = EmptyDict

\* The dict last_analysis denotes while the messages are generated.
LastAnalysis ==
    IF aliased THEN (exchange :> new_analysis) ELSE last_analysis

\* A variant of the status rule in which is_cold takes precedence.
StatusColdFirst(latest) ==
    IF latest.is_cold THEN "cold"
    ELSE IF latest.is_hot THEN "hot"
    ELSE "neutral"

\* hot if is_hot, else cold if is_cold, else neutral.
Status(latest) ==
    IF latest.is_hot THEN "hot"
    ELSE IF latest.is_cold THEN "cold"
    ELSE "neutral"

\* last_analysis[exchange][market_pair][indicator_type][indicator][index]
\* ['status'] inside try/except: any failing subscript gives str().
LookupStatus(last, e, market_pair, indicator_type, indicator, index) ==
    IF /\ e \in DOMAIN last
       /\ market_pair \in DOMAIN last[e]
       /\ indicator_type \in DOMAIN last[e][market_pair]
       /\ indicator \in DOMAIN last[e][market_pair][indicator_type]
       /\ index + 1 \in DOMAIN last[e][market_pair][indicator_type][indicator]
    THEN last[e][market_pair][indicator_type][indicator][index + 1].status
    ELSE NoStatus

\* A variant of the guard that lets every status through.
IsAnyStatus(latest) == TRUE

\* `if latest_result['is_hot'] or latest_result['is_cold']`
IsHotOrCold(latest) == latest.is_hot \/ latest.is_cold

\* A variant of should_alert without the alert_frequency test.
ShouldAlertEveryCycle(conf, last, status) == conf.alert_enabled

\* A variant of should_alert without the alert_enabled test.
ShouldAlertDisabled(conf, last, status) ==
    ~(conf.alert_frequency = "once" /\ last = status)

\* should_alert of an entry that is hot or cold.
ShouldAlert(conf, last, status) ==
    /\ ~(conf.alert_frequency = "once" /\ last = status)
    /\ conf.alert_enabled

\* The statement reached for every entry with rows, before its status is
\* computed: the message list of the entry's candle period is made anew.
ResetMessages(messages, conf) ==
    IF "candle_period" \in DOMAIN conf
    THEN Put(messages, conf.candle_period, <<>>)
    ELSE messages

\* A variant of the merge that keeps the new snapshot only.
MergeNewOnly(last, new) == new

\* {**self.last_analysis, **new_analysis}
Merge(last, new) ==
    [e \in DOMAIN last \cup DOMAIN new |-> IF e \in DOMAIN new THEN new[e] ELSE last[e]]

\* A variant of the price lookup that takes the values of any period.
PricesOfAnyPeriod(candle_values, candle_period) ==
    IF DOMAIN candle_values # {}
    THEN candle_values[CHOOSE cp \in DOMAIN candle_values : TRUE]
    ELSE <<>>

\* prices: the ohlcv values of the entry's candle period, '' (no values)
\* when ohlcv_values has none for it.
Prices(candle_values, candle_period) ==
    IF candle_period \in DOMAIN candle_values
    THEN candle_values[candle_period]
    ELSE <<>>

\* What message_template.render does for an entry of `indicator`: it
\* returns the text or raises one of jinja2's template errors.
RenderOutcome(template, indicator) ==
    IF indicator \in template THEN "TemplateError" ELSE "rendered"

\* message_template.render(...): the fields the template is given.
Render(e, market_pair, indicator, index, status, last, prices, lrsi) ==
    [exchange |-> e, market |-> market_pair, indicator |-> indicator,
     indicator_number |-> index, status |-> status, last_status |-> last,
     prices |-> prices, lrsi |-> lrsi]

\* The iterations of the loops over one pair: the informants pass, then every
\* entry of the indicators and of the crossovers, in dict and list order.
EntriesOf(analysis, market_pair, indicator_type, order) ==
    LET names == Keys(order, analysis[market_pair][indicator_type])
    IN  Flatten([k \in 1..Len(names) |->
            [i \in 1..Len(analysis[market_pair][indicator_type][names[k]]) |->
                [market_pair |-> market_pair, indicator_type |-> indicator_type,
                 indicator |-> names[k], index |-> i - 1]]])

WorkList(analysis, pairs) ==
    Flatten([k \in 1..Len(pairs) |->
        <<[market_pair |-> pairs[k], indicator_type |-> "informants",
           indicator |-> "", index |-> 0]>>
        \o EntriesOf(analysis, pairs[k], "indicators", IndicatorOrder)
        \o EntriesOf(analysis, pairs[k], "crossovers", CrossoverOrder)])

\* The first exception of the informants pass of a pair, "" if none.
InformantsError(inf) ==
    IF "ohlcv" \notin DOMAIN inf THEN "KeyError"
    ELSE IF \E a \in Range(inf["ohlcv"]) : Len(a.config.signal) > 0 /\ ~a.result.df
         THEN "AttributeError"
    ELSE IF \E a \in Range(inf["ohlcv"]) : Len(a.config.signal) > 0 /\ a.result.rows = 0
         THEN "IndexError"
    ELSE IF "lrsi" \notin DOMAIN inf THEN "KeyError"
    ELSE IF \E a \in Range(inf["lrsi"]) : Len(a.config.signal) > 0 /\ ~a.result.df
         THEN "AttributeError"
    ELSE IF \E a \in Range(inf["lrsi"]) : Len(a.config.signal) > 0 /\ a.result.rows = 0
         THEN "IndexError"
    ELSE ""

\* ohlcv_values / lrsi_values of a pair: candle period -> the signals read
\* from the latest row; a later entry of the same period overwrites.
RECURSIVE InformantValues(_, _, _)
InformantValues(entries, values, needSignal) ==
    IF entries = <<>> THEN values
    ELSE LET a == Head(entries)
         IN  InformantValues(Tail(entries),
                 IF needSignal /\ Len(a.config.signal) = 0 THEN values
                 ELSE Put(values, a.config.candle_period, a.config.signal),
                 needSignal)

-----------------------------------------------------------------------------
(* History kept for the properties: what the previous cycle did *)

\* The indicator and crossover entries of an analysis, as
\* <<pair, kind, name, index>>.
EntryKeys(analysis) ==
    UNION { { <<p, t, n, i - 1>> : i \in DOMAIN analysis[p][t][n] } :
              <<p, t, n>> \in { x \in (DOMAIN analysis) \X {"indicators", "crossovers"}
                                      \X (DOMAIN config.indicators
                                          \cup DOMAIN config.crossovers) :
                                  x[3] \in DOMAIN analysis[x[1]][x[2]] } }

EntryAt(analysis, k) == analysis[k[1]][k[2]][k[3]][k[4] + 1]

\* The entries that have a message in a cycle's output.
AlertedIn(messages, analysis) ==
    { k \in EntryKeys(analysis) :
        /\ k[1] \in DOMAIN messages
        /\ \E cp \in DOMAIN messages[k[1]] :
             \E m \in Range(messages[k[1]][cp]) :
                m.indicator = k[3] /\ m.indicator_number = k[4] }

PrevStatus(k) == IF k \in DOMAIN prev_status THEN prev_status[k] ELSE NoStatus
Prog(k) == IF k \in DOMAIN prog THEN prog[k] ELSE 0

\* The entries whose status sequence is followed: alert once, alerts enabled.
Watched(conf) == conf.alert_frequency = "once" /\ conf.alert_enabled

\* Progress through the statuses hot, hot, neutral of consecutive cycles.
ProgStep(n, status) ==
    IF status = "hot" THEN (IF n = 0 \/ n = 3 THEN 1 ELSE 2)
    ELSE IF status = "neutral" /\ n = 2 THEN 3
    ELSE 0

-----------------------------------------------------------------------------
(* The state machine *)

\* No load_exchanges has run.
PoolIdle ==
    /\ cycle = "idle"
    /\ submissions = <<>>
    /\ units = EmptyDict
    /\ yielded = {}

\* No message is being sent.
NotifyIdle ==
    /\ notify_pc = "idle"
    /\ message_chunks = <<>>
    /\ attempt_number = 0
    /\ position = 0
    /\ sent = <<>>
    /\ outcomes = <<>>
    /\ notify_error = ""

\* No user has started a chat.
NoUser ==
    /\ users_market_data = EmptyDict
    /\ users_exchanges = <<>>
    /\ jobs = {}
    /\ chat_data = EmptyDict
    /\ scheduled = 0
    /\ last_command = [name |-> "", args |-> <<>>, reply |-> "", jobs |-> {},
                       chat_data |-> EmptyDict]
    /\ produced = EmptyDict
    /\ cycles = 0
    /\ alarms = 0
    /\ last_alarm = [fault |-> "", handed |-> <<>>, enabled |-> <<>>, results |-> {}]
    /\ delivered = EmptyDict
    /\ settings = [market_pairs |-> Pairs]
    /\ users_config = EmptyDict
    /\ users_indicators = EmptyDict
    /\ update = [user |-> "", command |-> "", args |-> <<>>, replies |-> <<>>]

\* No load_exchange has run.
RunIdle ==
    /\ pc = "idle"
    /\ exchange = ""
    /\ fault = ""
    /\ all_historical_data = EmptyDict
    /\ last_analysis = EmptyDict
    /\ aliased = FALSE
    /\ new_analysis = EmptyDict
    /\ new_messages = EmptyDict
    /\ ohlcv_values = EmptyDict
    /\ lrsi_values = EmptyDict
    /\ todo = <<>>
    /\ latest_result = Unbound
    /\ last_status = NoStatus
    /\ charts = {}
    /\ consulted = EmptyDict
    /\ prev_status = EmptyDict
    /\ prev_alerted = {}
    /\ prev_ok = FALSE
    /\ prog = EmptyDict
    /\ fetched = <<>>
    /\ calls = <<>>

Init ==
    /\ \E s \in Setups : config = s.config /\ market_data = s.market_data
    /\ fibonacci = [e \in DOMAIN market_data |-> Range(market_data[e])]
    /\ new_results = EmptyDict
    /\ RunIdle
    /\ PoolIdle
    /\ NoUser
    /\ NotifyIdle

Raise(error) == pc' = "fault" /\ fault' = error

\* load_exchange(e) up to the loops of get_indicator_messages: a new
\* Behaviour, the candle data, the analysis of every pair, and the binding of
\* last_analysis.
StartRun(e) ==
    /\ pc \in {"idle", "done", "fault"}
    /\ e \in DOMAIN market_data
    /\ exchange' = e
    /\ prev_status' = [k \in { x \in EntryKeys(new_analysis) :
                                 /\ e = exchange
                                 /\ EntryAt(new_analysis, x).status # NoStatus } |->
                          EntryAt(new_analysis, k).status]
    /\ prev_alerted' = IF pc = "done" /\ e = exchange
                       THEN AlertedIn(new_messages, new_analysis) ELSE {}
    /\ prev_ok' = (pc = "done" /\ e = exchange)
    /\ prog' = [k \in { x \in EntryKeys(new_analysis) :
                          /\ pc = "done"
                          /\ e = exchange
                          /\ Watched(EntryAt(new_analysis, x).config)
                          /\ ProgStep(Prog(x), EntryAt(new_analysis, x).status) # 0 } |->
                   ProgStep(Prog(k), EntryAt(new_analysis, k).status)]
    /\ \E fetch \in [FetchKeys(market_data[e]) -> FetchOutcomes] :
         LET pairs == market_data[e]
             data == get_all_historical_data(pairs, fetch)
         IN  /\ all_historical_data' = data
             /\ fetched' = Requests(pairs, fetch)
             /\ calls' = Calls(pairs, data)
             /\ \E res \in ResultsOfPairs(pairs, data) :
               LET tested == test_strategies(pairs, data, res)
               IN  /\ last_analysis' = BehaviourInit.last_analysis
                   /\ IF tested.error # ""
                      THEN /\ Raise(tested.error)
                           /\ new_analysis' = EmptyDict
                           /\ aliased' = FALSE
                           /\ todo' = <<>>
                      ELSE /\ pc' = "messages"
                           /\ fault' = ""
                           /\ new_analysis' = tested.result
                           /\ aliased' = AliasesNewAnalysis(BehaviourInit.last_analysis)
                           /\ todo' = WorkList(tested.result, pairs)
    /\ new_messages' = EmptyDict
    /\ ohlcv_values' = EmptyDict
    /\ lrsi_values' = EmptyDict
    /\ latest_result' = Unbound
    /\ last_status' = NoStatus
    /\ charts' = {}
    /\ consulted' = EmptyDict
    /\ UNCHANGED <<config, market_data, fibonacci, new_results, poolvars, alarmvars,
                   marketvars, notifyvars>>

\* The start of a pair in get_indicator_messages: its empty message dict and
\* the ohlcv and lrsi values of its informants.
BeginPair ==
    /\ pc = "messages"
    /\ todo # <<>>
    /\ Head(todo).indicator_type = "informants"
    /\ LET market_pair == Head(todo).market_pair
           inf == new_analysis[market_pair]["informants"]
           error == InformantsError(inf)
       IN  /\ new_messages' = Put(new_messages, market_pair, EmptyDict)
           /\ IF error # ""
              THEN /\ Raise(error)
                   /\ UNCHANGED <<ohlcv_values, lrsi_values, todo>>
              ELSE /\ ohlcv_values' = Put(ohlcv_values, market_pair,
                                          InformantValues(inf["ohlcv"], EmptyDict, TRUE))
                   /\ lrsi_values' = Put(lrsi_values, market_pair,
                                         InformantValues(inf["lrsi"], EmptyDict, FALSE))
                   /\ todo' = Tail(todo)
                   /\ UNCHANGED <<pc, fault>>
    /\ UNCHANGED <<poolvars, alarmvars, marketvars, notifyvars>>
    /\ UNCHANGED <<config, market_data, fibonacci, new_results, exchange,
                   all_historical_data, last_analysis, aliased, new_analysis,
                   latest_result, last_status, charts, consulted,
                   prev_status, prev_alerted, prev_ok, prog, fetched, calls>>

\* One iteration of the loop over the entries of a pair.
EvaluateEntry ==
    /\ pc = "messages"
    /\ todo # <<>>
    /\ Head(todo).indicator_type # "informants"
    /\ LET market_pair == Head(todo).market_pair
           indicator_type == Head(todo).indicator_type
           indicator == Head(todo).indicator
           index == Head(todo).index
           analysis == new_analysis[market_pair][indicator_type][indicator][index + 1]
           conf == analysis.config
           messages1 == [new_messages EXCEPT ![market_pair] = ResetMessages(@, conf)]
           latest == IF indicator_type = "crossovers" \/ Len(conf.signal) > 0
                     THEN analysis.result ELSE latest_result
           status == Status(latest)
           analysis1 == [new_analysis EXCEPT
                            ![market_pair][indicator_type][indicator][index + 1].status = status]
           last == LookupStatus(IF aliased THEN (exchange :> analysis1) ELSE last_analysis,
                                exchange, market_pair, indicator_type, indicator, index)
           hotcold == IsHotOrCold(latest)
       IN  IF ~analysis.result.df
           THEN /\ Raise("AttributeError")
                /\ UNCHANGED <<new_analysis, new_messages, todo, latest_result,
                               last_status, consulted>>
           ELSE IF analysis.result.rows = 0
           THEN /\ todo' = Tail(todo)
                /\ UNCHANGED <<pc, fault, new_analysis, new_messages, latest_result,
                               last_status, consulted>>
           ELSE IF latest = Unbound
           THEN /\ Raise("UnboundLocalError")
                /\ new_messages' = messages1
                /\ UNCHANGED <<new_analysis, todo, latest_result, last_status, consulted>>
           ELSE /\ new_analysis' = analysis1
                /\ latest_result' = latest
                /\ last_status' = IF hotcold THEN last ELSE last_status
                /\ consulted' = IF hotcold
                                THEN Put(consulted,
                                         <<market_pair, indicator_type, indicator, index>>,
                                         last)
                                ELSE consulted
                /\ IF ~(hotcold /\ ShouldAlert(conf, last, status))
                   THEN /\ new_messages' = messages1
                        /\ todo' = Tail(todo)
                        /\ UNCHANGED <<pc, fault>>
                   ELSE IF "candle_period" \notin DOMAIN conf
                   THEN /\ Raise("KeyError")
                        /\ new_messages' = messages1
                        /\ UNCHANGED todo
                   ELSE LET candle_period == conf.candle_period
                            prices == Prices(ohlcv_values[market_pair], candle_period)
                            hasLrsi == candle_period \in DOMAIN lrsi_values[market_pair]
                        IN  IF hasLrsi /\ "lrsi" \notin
                                    Range(lrsi_values[market_pair][candle_period])
                            THEN /\ Raise("KeyError")
                                 /\ new_messages' = messages1
                                 /\ UNCHANGED todo
                            ELSE LET outcome == RenderOutcome(config.template, indicator)
                                 IN
                                 IF outcome # "rendered"
                                 THEN /\ Raise(outcome)
                                      /\ new_messages' = messages1
                                      /\ UNCHANGED todo
                                 ELSE /\ new_messages' =
                                           [messages1 EXCEPT ![market_pair][candle_period] =
                                               Append(@, Render(exchange, market_pair,
                                                          indicator, index, status, last,
                                                          prices,
                                                          IF hasLrsi THEN "lrsi" ELSE ""))]
                                      /\ todo' = Tail(todo)
                                      /\ UNCHANGED <<pc, fault>>
    /\ UNCHANGED <<poolvars, alarmvars, marketvars, notifyvars>>
    /\ UNCHANGED <<config, market_data, fibonacci, new_results, exchange,
                   all_historical_data, last_analysis, aliased, ohlcv_values,
                   lrsi_values, charts, prev_status, prev_alerted, prev_ok, prog,
                   fetched, calls>>

\* load_exchange: new_results[exchange] = new_result[exchange]
StoreResult(results, e, messages) == Put(results, e, messages)

\* _create_charts: the (pair, period) combinations with a message; a pair
\* without fibonacci levels raises.
ChartsError(messages) ==
    IF \E p \in DOMAIN messages :
          exchange \notin DOMAIN fibonacci \/ p \notin fibonacci[exchange]
    THEN "KeyError" ELSE ""

\* A variant of the charts that takes every period with a list.
create_charts_of_every_list(messages) ==
    { x \in (DOMAIN messages) \X Periods : x[2] \in DOMAIN messages[x[1]] }

create_charts(messages) ==
    { <<p, cp>> : p \in DOMAIN messages, cp \in Periods } \cap
    { x \in (DOMAIN messages) \X Periods :
        x[2] \in DOMAIN messages[x[1]] /\ Len(messages[x[1]][x[2]]) # 0 }

\* The end of get_indicator_messages (the merge into last_analysis), the
\* charts, and load_exchange storing what run returned.
Finish ==
    /\ pc = "messages"
    /\ todo = <<>>
    /\ last_analysis' = Merge(LastAnalysis, exchange :> new_analysis)
    /\ aliased' = FALSE
    /\ IF ChartsError(new_messages) # ""
       THEN /\ Raise(ChartsError(new_messages))
            /\ UNCHANGED <<new_results, charts>>
       ELSE /\ charts' = create_charts(new_messages)
            /\ new_results' = StoreResult(new_results, exchange, new_messages)
            /\ pc' = "done"
            /\ UNCHANGED fault
    /\ UNCHANGED <<poolvars, alarmvars, marketvars, notifyvars>>
    /\ UNCHANGED <<config, market_data, fibonacci, exchange, all_historical_data,
                   new_analysis, new_messages, ohlcv_values, lrsi_values, todo,
                   latest_result, last_status, consulted, prev_status, prev_alerted,
                   prev_ok, prog, fetched, calls>>

Next ==
    \/ \E e \in Exchanges : StartRun(e)
    \/ BeginPair
    \/ EvaluateEntry
    \/ Finish

Spec == Init /\ [][Next]_vars

-----------------------------------------------------------------------------
(* app.py load_exchanges: one cycle over the exchanges of market_data *)

\* The bound of the pool model: the exchanges of market_data.
NumExchanges == 6

\* The dict order of market_data and of the user's market data.
ExchangeNames == <<"binance", "bittrex", "bitfinex", "kraken", "kucoin", "poloniex",
                   "huobi", "okex">>
PoolExchanges == SubSeq(ExchangeNames, 1, NumExchanges)

\* ThreadPoolExecutor(max_workers=5)
max_workers == 5

\* The exchanges of a market data dict in dict order.
ExchangesOf(data) == SelectSeq(ExchangeNames, LAMBDA e : e \in DOMAIN data)

\* What Behaviour.run returns for an exchange none of whose pairs has a list.
NoMessages == [p \in Range(Pairs) |-> EmptyDict]

Running == { e \in DOMAIN units : units[e] = "running" }
Finished == { e \in DOMAIN units : units[e] \in {"returned", "raised"} }

\* A variant of the pool that starts every work item at once.
CanStartAlways(running) == TRUE

\* A work item is taken from the queue when one of the max_workers threads
\* is idle.
CanStart(running) == Cardinality(running) < max_workers

\* What load_exchanges leaves alone.
poolframe == <<config, market_data, fibonacci, runvars, alarmvars, marketvars,
               notifyvars>>

PoolInit ==
    /\ config = PlainConfig
    /\ market_data = [e \in Range(PoolExchanges) |-> Pairs]
    /\ fibonacci = [e \in DOMAIN market_data |-> Range(market_data[e])]
    /\ new_results = EmptyDict
    /\ RunIdle
    /\ PoolIdle
    /\ NoUser
    /\ NotifyIdle

\* The scheduler calls load_exchanges: a new executor, no future yet.
StartCycle ==
    /\ cycle \in {"idle", "completed", "raised"}
    /\ cycle' = "submitting"
    /\ submissions' = <<>>
    /\ units' = EmptyDict
    /\ yielded' = {}
    /\ UNCHANGED new_results
    /\ UNCHANGED poolframe

\* executor.submit(load_exchange, exchange) for the next exchange of
\* market_data; after the last one the loop over as_completed begins.
Submit ==
    /\ cycle = "submitting"
    /\ LET order == ExchangesOf(market_data)
           e == order[Len(submissions) + 1]
       IN  /\ submissions' = Append(submissions, e)
           /\ units' = Put(units, e, "queued")
           /\ cycle' = IF Len(submissions) + 1 = Len(order) THEN "waiting" ELSE cycle
    /\ UNCHANGED <<yielded, new_results>>
    /\ UNCHANGED poolframe

\* A thread of the pool takes the oldest queued work item.
StartUnit ==
    /\ CanStart(Running)
    /\ \E i \in DOMAIN submissions :
         /\ units[submissions[i]] = "queued"
         /\ \A j \in 1..(i - 1) : units[submissions[j]] # "queued"
         /\ units' = [units EXCEPT ![submissions[i]] = "running"]
    /\ UNCHANGED <<cycle, submissions, yielded, new_results>>
    /\ UNCHANGED poolframe

\* load_exchange(e) returns True after storing what run returned.
UnitReturns(e) ==
    /\ e \in Running
    /\ new_results' = StoreResult(new_results, e, NoMessages)
    /\ units' = [units EXCEPT ![e] = "returned"]
    /\ UNCHANGED <<cycle, submissions, yielded>>
    /\ UNCHANGED poolframe

\* load_exchange(e) logs the exception of its run and raises it again.
UnitRaises(e) ==
    /\ e \in Running
    /\ units' = [units EXCEPT ![e] = "raised"]
    /\ UNCHANGED <<cycle, submissions, yielded, new_results>>
    /\ UNCHANGED poolframe

\* as_completed yields a finished future: future.result() returns True, or
\* raises the exception of the work item, which the loop logs and raises.
Yield ==
    /\ cycle = "waiting"
    /\ \E e \in Finished \ yielded :
         /\ yielded' = yielded \cup {e}
         /\ cycle' = IF units[e] = "raised" THEN "raising" ELSE cycle
    /\ UNCHANGED <<submissions, units, new_results>>
    /\ UNCHANGED poolframe

\* Every future was yielded: the with block ends and load_exchanges returns.
Complete ==
    /\ cycle = "waiting"
    /\ yielded = DOMAIN market_data
    /\ cycle' = "completed"
    /\ UNCHANGED <<submissions, units, yielded, new_results>>
    /\ UNCHANGED poolframe

\* The exception leaves the with block, whose exit waits for every work
\* item, and then leaves load_exchanges.
Reraise ==
    /\ cycle = "raising"
    /\ Finished = DOMAIN units
    /\ cycle' = "raised"
    /\ UNCHANGED <<submissions, units, yielded, new_results>>
    /\ UNCHANGED poolframe

PoolNext ==
    \/ StartCycle
    \/ Submit
    \/ StartUnit
    \/ \E e \in DOMAIN market_data : UnitReturns(e)
    \/ \E e \in DOMAIN market_data : UnitRaises(e)
    \/ Yield
    \/ Complete
    \/ Reraise

PoolSpec == PoolInit /\ [][PoolNext]_vars

-----------------------------------------------------------------------------
(* app.py: the chat commands of one user, alarm, and the scheduled cycles *)

\* The bounds of the alarm model: cycles, alarm invocations and timers.
MaxCycles == 2
MaxAlarms == 3
MaxJobs == 2

\* What load_exchange does for an exchange in a cycle: run raises, or it
\* returns a group without a list, with an empty list, or with a message.
CycleOutcomes == {"raised", "nodata", "quiet", "alert"}

\* new_result[exchange] of a run, by its outcome.
GroupOf(e, outcome) ==
    [p \in Range(Pairs) |->
        IF outcome = "nodata" THEN EmptyDict
        ELSE IF outcome = "quiet" THEN ("1h" :> <<>>)
        ELSE ("1h" :> <<Render(e, p, "rsi", 0, "hot", NoStatus, <<>>, "")>>)]

\* A group with at least one alert message.
HasMessage(group) ==
    \E p \in DOMAIN group : \E cp \in DOMAIN group[p] : Len(group[p][cp]) > 0

\* load_exchanges, every work item included: the results after the cycle.
RECURSIVE StoreResults(_, _, _)
StoreResults(order, outcome, results) ==
    IF order = <<>> THEN results
    ELSE LET e == Head(order)
         IN  StoreResults(Tail(order), outcome,
                 IF outcome[e] = "raised" THEN results
                 ELSE StoreResult(results, e, GroupOf(e, outcome[e])))

\* _notifier.notify_telegram(messages, ...): what is handed to the notifier.
HandOver(messages, e) == messages

\* The loop of alarm over the exchanges of the user's market data:
\* [fault, handed], handed being the dicts given to notify_telegram.
RECURSIVE AlarmLoop(_, _, _, _, _, _)
AlarmLoop(order, user_data, enabled, results, messages, handed) ==
    IF order = <<>> THEN [fault |-> "", handed |-> handed]
    ELSE LET e == Head(order)
             on == e \in Range(enabled)
         IN  IF on /\ (\/ e \notin DOMAIN results
                       \/ \E p \in Range(user_data[e]) : p \notin DOMAIN results[e])
             THEN [fault |-> "KeyError", handed |-> handed]
             ELSE LET group == [p \in { q \in Range(user_data[e]) :
                                          DOMAIN results[e][q] # {} } |-> results[e][p]]
                      messages1 == IF on THEN Put(messages, e, group) ELSE messages
                  IN  IF e \notin DOMAIN messages1
                      THEN [fault |-> "KeyError", handed |-> handed]
                      ELSE AlarmLoop(Tail(order), user_data, enabled, results, messages1,
                               IF DOMAIN messages1[e] # {}
                               THEN Append(handed, HandOver(messages1, e))
                               ELSE handed)

\* The exchanges whose group, with a message in it, is in a dict handed over.
HandedExchanges(handed) ==
    { e \in Exchanges : \E i \in DOMAIN handed :
                           e \in DOMAIN handed[i] /\ HasMessage(handed[i][e]) }

\* A text is the sequence of its characters.
Digits == ("0" :> 0) @@ ("1" :> 1) @@ ("2" :> 2) @@ ("3" :> 3) @@ ("4" :> 4) @@
          ("5" :> 5) @@ ("6" :> 6) @@ ("7" :> 7) @@ ("8" :> 8) @@ ("9" :> 9)

\* The digits of a text after its sign.
Unsigned(text) ==
    IF text # <<>> /\ Head(text) \in {"-", "+"} THEN Tail(text) ELSE text

\* int(text) returns: a sign at most, then digits only, one at least.
IsInteger(text) ==
    /\ Unsigned(text) # <<>>
    /\ \A i \in DOMAIN Unsigned(text) : Unsigned(text)[i] \in DOMAIN Digits

RECURSIVE Magnitude(_)
Magnitude(digits) ==
    IF digits = <<>> THEN 0
    ELSE 10 * Magnitude(SubSeq(digits, 1, Len(digits) - 1)) + Digits[digits[Len(digits)]]

\* int(text) of a text that is an integer.
int(text) ==
    IF Head(text) = "-" THEN 0 - Magnitude(Unsigned(text)) ELSE Magnitude(Unsigned(text))

\* The arguments given to /timeout: none, a word, a negative and a
\* positive number of seconds.
Word == <<"a", "b", "c">>
MinusFive == <<"-", "5">>
Sixty == <<"6", "0">>
TimeoutArgs == {<<>>, <<Word>>, <<MinusFive>>, <<Sixty>>}

\* What the commands other than /timeout and /unset leave alone.
timerframe == <<chat_data, scheduled, last_command>>

\* What the chat commands and the alarm leave alone.
userframe == <<config, market_data, fibonacci, runvars, poolvars, marketvars,
               notifyvars>>

AlarmInit ==
    /\ config = PlainConfig
    /\ market_data = [e \in Exchanges |-> Pairs]
    /\ fibonacci = [e \in DOMAIN market_data |-> Range(market_data[e])]
    /\ new_results = EmptyDict
    /\ RunIdle
    /\ PoolIdle
    /\ NoUser
    /\ NotifyIdle

\* /start: the user's exchanges are set to the default ones, the user's
\* market data is copied once.
start ==
    /\ users_exchanges' = ExchangesOf(market_data)
    /\ users_market_data' = IF users_market_data = EmptyDict
                            THEN market_data ELSE users_market_data
    /\ UNCHANGED <<new_results, jobs, produced, cycles, alarms, last_alarm, delivered>>
    /\ UNCHANGED <<userframe, timerframe>>

\* /exchange <operation> <name>
exchange_command(operation, name) ==
    /\ users_market_data # EmptyDict
    /\ users_exchanges' =
          IF operation = "disable" /\ name \in Range(users_exchanges)
          THEN SelectSeq(users_exchanges, LAMBDA x : x # name)
          ELSE users_exchanges
    /\ UNCHANGED <<new_results, users_market_data, jobs, produced, cycles, alarms,
                   last_alarm, delivered>>
    /\ UNCHANGED <<userframe, timerframe>>

\* The key of the chat's job in chat_data.
job_id == "job"

\* Replies of /timeout and /unset.
TimeoutRefused == "Sorry we can not go back to future!"
TimerUnset == "Timer successfully unset!"

\* The test of set_timeout on the seconds given.
RefusedNever(due) == FALSE
Refused(due) == due < 0

\* The body of set_timeout: args[0] missing is an IndexError, not an integer
\* a ValueError, and both end in the usage reply; a refused value returns;
\* any other value adds a job to the queue and records it in chat_data.
timeout_command(args, queue, data, created) ==
    IF args = <<>> \/ ~IsInteger(args[1])
    THEN [jobs |-> queue, chat_data |-> data, scheduled |-> created,
          reply |-> "Usage: /timeout <seconds>"]
    ELSE IF Refused(int(args[1]))
    THEN [jobs |-> queue, chat_data |-> data, scheduled |-> created,
          reply |-> TimeoutRefused]
    ELSE [jobs |-> queue \cup {created + 1},
          chat_data |-> Put(data, job_id, created + 1),
          scheduled |-> created + 1, reply |-> "Timeout successfully set"]

\* The body of unset: without a recorded job it only replies, otherwise the
\* recorded job is removed from the queue and from chat_data.
unset_command(queue, data) ==
    IF job_id \notin DOMAIN data
    THEN [jobs |-> queue, chat_data |-> data, reply |-> "You have no active timer"]
    ELSE [jobs |-> queue \ {data[job_id]},
          chat_data |-> [k \in DOMAIN data \ {job_id} |-> data[k]],
          reply |-> TimerUnset]

\* /timeout <seconds>
set_timeout(args) ==
    /\ users_market_data # EmptyDict
    /\ scheduled < MaxJobs
    /\ LET done == timeout_command(args, jobs, chat_data, scheduled)
       IN  /\ jobs' = done.jobs
           /\ chat_data' = done.chat_data
           /\ scheduled' = done.scheduled
           /\ last_command' = [name |-> "timeout", args |-> args, reply |-> done.reply,
                                jobs |-> jobs, chat_data |-> chat_data]
    /\ UNCHANGED <<new_results, users_market_data, users_exchanges, produced, cycles,
                   alarms, last_alarm, delivered>>
    /\ UNCHANGED userframe

\* /unset
unset ==
    /\ users_market_data # EmptyDict
    /\ LET done == unset_command(jobs, chat_data)
       IN  /\ jobs' = done.jobs
           /\ chat_data' = done.chat_data
           /\ last_command' = [name |-> "unset", args |-> <<>>, reply |-> done.reply,
                                jobs |-> jobs, chat_data |-> chat_data]
    /\ UNCHANGED <<new_results, users_market_data, users_exchanges, scheduled, produced,
                   cycles, alarms, last_alarm, delivered>>
    /\ UNCHANGED userframe

\* A job of the user fires: alarm.
alarm ==
    /\ jobs # {}
    /\ alarms < MaxAlarms
    /\ LET done == AlarmLoop(ExchangesOf(users_market_data), users_market_data,
                             users_exchanges, new_results, EmptyDict, <<>>)
           got == { <<e, produced[e]>> : e \in HandedExchanges(done.handed) }
       IN  /\ last_alarm' = [fault |-> done.fault, handed |-> done.handed,
                             enabled |-> users_exchanges,
                             results |-> DOMAIN new_results]
           /\ delivered' = [k \in DOMAIN delivered \cup got |->
                               (IF k \in DOMAIN delivered THEN delivered[k] ELSE 0)
                               + (IF k \in got THEN 1 ELSE 0)]
    /\ alarms' = alarms + 1
    /\ UNCHANGED <<new_results, users_market_data, users_exchanges, jobs, produced,
                   cycles>>
    /\ UNCHANGED <<userframe, timerframe>>

\* The scheduler runs load_exchanges: every exchange whose load_exchange
\* returns has its group replaced, the others keep what they had.
load_exchanges ==
    /\ cycles < MaxCycles
    /\ \E outcome \in [DOMAIN market_data -> CycleOutcomes] :
         /\ new_results' = StoreResults(ExchangesOf(market_data), outcome, new_results)
         /\ produced' = [e \in DOMAIN produced
                               \cup { x \in DOMAIN market_data : outcome[x] # "raised" } |->
                            IF outcome[e] # "raised" THEN cycles + 1 ELSE produced[e]]
    /\ cycles' = cycles + 1
    /\ UNCHANGED <<users_market_data, users_exchanges, jobs, alarms, last_alarm,
                   delivered>>
    /\ UNCHANGED <<userframe, timerframe>>

AlarmNext ==
    \/ start
    \/ \E operation \in {"disable", "add"}, name \in Exchanges :
          exchange_command(operation, name)
    \/ \E args \in TimeoutArgs : set_timeout(args)
    \/ unset
    \/ alarm
    \/ load_exchanges

AlarmSpec == AlarmInit /\ [][AlarmNext]_vars

-----------------------------------------------------------------------------
(* app.py: /start, /exchange, /market and /indicator of several users *)

\* The bound of the market model: the length of a user's market_pairs.
MaxPairs == 2

Users == {"usr_1", "usr_2"}

\* The markets the exchanges list, in the order load_markets gives them.
Listing ==
    [binance |-> <<"BTC/USDT">>, bittrex |-> <<"BTC/USDT", "LTC/USDT">>]

\* exchange_interface.get_exchange_markets(exchanges, markets): per exchange
\* the listed markets that are among the markets given, every listed market
\* when none is given.
get_exchange_markets(exchanges, markets) ==
    [e \in DOMAIN exchanges |->
        IF markets = <<>> THEN Listing[e]
        ELSE SelectSeq(Listing[e], LAMBDA p : p \in Range(markets))]

\* exchange_interface.get_default_exchanges(): the configured exchanges,
\* each with its configuration.
get_default_exchanges == [e \in Exchanges |-> [required |-> [enabled |-> TRUE]]]

\* setup_fibonacci: an entry for every pair of every exchange.
setup_fibonacci(data) == [e \in DOMAIN data |-> Range(data[e])]

\* add_to_fibonnaci(exchange, market_pair)
add_to_fibonnaci(table, e, market_pair) ==
    [table EXCEPT ![e] = @ \cup {market_pair}]

\* ("%s/%s" % (args[1].strip(), args[2].strip())).upper()
MarketPair(symbol, base) ==
    CASE <<symbol, base>> = <<"btc", "usdt">> -> "BTC/USDT"
      [] <<symbol, base>> = <<"ltc", "usdt">> -> "LTC/USDT"
      [] <<symbol, base>> = <<"foo", "usdt">> -> "FOO/USDT"

\* list.remove(x) raises ValueError unless x is in the list.
CanRemoveAlways(list, x) == TRUE
CanRemove(list, x) == x \in Range(list)

\* list.remove(x): the list without the first x.
Remove(list, x) ==
    IF x \notin Range(list) THEN list
    ELSE LET i == CHOOSE k \in DOMAIN list :
                     list[k] = x /\ \A j \in 1..(k - 1) : list[j] # x
         IN  SubSeq(list, 1, i - 1) \o SubSeq(list, i + 1, Len(list))

\* get_user_indicators: per indicator the periods of its enabled entries.
get_user_indicators(indicators) ==
    [n \in DOMAIN indicators |->
        LET on == SelectSeq(indicators[n], LAMBDA conf : conf.enabled)
        IN  [i \in DOMAIN on |-> on[i].candle_period]]

\* Replies of /market and /indicator.
MarketNotListed == "is not in your market pairs list."
MarketRemoved == "successfully removed!"
IndicatorApplied == "Changes applied successfully!"

\* The loop of market that sets exists: it is set as soon as an exchange of
\* the user's market data has a pair at all.
Exists(data, market_pair) ==
    \E e \in DOMAIN data : \E p \in Range(data[e]) : p \in Range(data[e])

\* The body of market on the user's config and market data and on the global
\* settings, market data and fibonacci table.
market_command(args, own, data, global, table, user_config) ==
    LET same == [market_pairs |-> user_config.market_pairs, users_market_data |-> own,
                 market_data |-> data, settings |-> global, fibonacci |-> table]
        usage == <<"Usage: /market <add|remove> symbol base_market",
                   "For example: /market add btc usdt">>
    IN  IF Len(args) < 3 THEN same @@ [replies |-> usage]
        ELSE LET market_pair == MarketPair(args[2], args[3])
                 pairs == user_config.market_pairs
             IN  IF args[1] = "add"
                 THEN LET added == Append(pairs, market_pair)
                          found == get_exchange_markets(user_config.exchanges, added)
                          known == market_pair \in Range(global.market_pairs)
                          all == IF known THEN global.market_pairs
                                 ELSE Append(global.market_pairs, market_pair)
                      IN  IF Exists(found, market_pair)
                          THEN [market_pairs |-> added,
                                users_market_data |-> found,
                                settings |-> [global EXCEPT !.market_pairs = all],
                                market_data |->
                                    IF known THEN data
                                    ELSE get_exchange_markets(get_default_exchanges, all),
                                fibonacci |-> add_to_fibonnaci(table, "binance", market_pair),
                                replies |-> <<"successfully added!">>]
                          ELSE [same EXCEPT !.market_pairs = Remove(added, market_pair)]
                                   @@ [replies |-> <<"doesnt exist on your exchanges">>]
                 ELSE IF args[1] = "remove"
                 THEN LET warned == IF market_pair \notin Range(pairs)
                                    THEN <<MarketNotListed>> ELSE <<>>
                          left == Remove(pairs, market_pair)
                      IN  IF ~CanRemove(pairs, market_pair)
                          THEN same @@ [replies |-> warned \o usage]
                          ELSE [same EXCEPT
                                  !.market_pairs = left,
                                  !.users_market_data =
                                      get_exchange_markets(get_default_exchanges, left)]
                                   @@ [replies |-> warned \o <<MarketRemoved>>]
                 ELSE same @@ [replies |-> <<>>]

\* The body of exchange on the user's list of exchanges.
exchange_of_user(args, list) ==
    IF Len(args) < 2
    THEN [users_exchanges |-> list,
          replies |-> <<"Usage: /exchange [add|remove/enable/disable] exchange_name",
                        "For example: /exchange disable bitfinex">>]
    ELSE IF args[1] = "disable"
    THEN IF args[2] \in Range(list)
         THEN [users_exchanges |-> Remove(list, args[2]),
               replies |-> <<"was disabled sucessfully!">>]
         ELSE [users_exchanges |-> list,
               replies |-> <<"is not enable for you or doesnt exist!">>]
    ELSE IF args[1] = "add"
    THEN [users_exchanges |-> list,
          replies |-> <<"This operation only can be done for Bot Admin">>]
    ELSE [users_exchanges |-> list, replies |-> <<>>]

\* The body of indicator on the indicators of a config: without arguments
\* the usage, with too few an IndexError and the usage, with an indicator
\* that is not configured a KeyError, which nothing catches.
indicator_command(args, indicators) ==
    IF Len(args) < 3
    THEN [indicators |-> indicators, applied |-> FALSE,
          replies |-> <<"Usage: /indicator <indicator> <candle_period> <enable|disable>">>]
    ELSE IF args[1] \notin DOMAIN indicators
    THEN [indicators |-> indicators, applied |-> FALSE, replies |-> <<>>]
    ELSE [indicators |->
             [indicators EXCEPT ![args[1]] =
                 [idx \in DOMAIN @ |->
                     IF @[idx].candle_period = args[2]
                     THEN [@[idx] EXCEPT !.enabled = (args[3] = "enable")]
                     ELSE @[idx]]],
          applied |-> TRUE, replies |-> <<IndicatorApplied>>]

\* copy.deepcopy(config) in start: the users whose config is the object that
\* users_config[user_id] names.
SharedConfig(user_id) == DOMAIN users_config
OwnConfig(user_id) == {user_id}

\* The arguments the users give.
MarketArgs ==
    { <<operation, symbol, "usdt">> :
         operation \in {"add", "remove"}, symbol \in {"ltc", "foo"} }
        \cup {<<"add", "ltc">>}
ExchangeArgs == {<<"disable", "bittrex">>, <<"disable">>}
IndicatorArgs ==
    {<<"rsi", "1h", "disable">>, <<"rsi", "1h", "enable">>, <<"adx", "1h", "enable">>}

\* What the commands of the market model leave alone.
marketframe == <<new_results, runvars, poolvars, jobs, chat_data, scheduled,
                 last_command, produced, cycles, alarms, last_alarm, delivered,
                 notifyvars>>

MarketInit ==
    /\ config = PlainConfig
    /\ market_data = get_exchange_markets(get_default_exchanges, Pairs)
    /\ fibonacci = setup_fibonacci(market_data)
    /\ new_results = EmptyDict
    /\ RunIdle
    /\ PoolIdle
    /\ NoUser
    /\ NotifyIdle

\* /start of a user: the config is copied at the first /start only, the
\* exchanges and indicators of the user are set anew at every /start, the
\* market data is copied at the first /start only.
start_of_user(user_id) ==
    LET copied == IF user_id \in DOMAIN users_config THEN users_config[user_id]
                  ELSE [indicators |-> config.indicators,
                        market_pairs |-> settings.market_pairs,
                        exchanges |-> get_default_exchanges]
        own == [copied EXCEPT !.exchanges = get_default_exchanges]
    IN  /\ users_config' = Put(users_config, user_id, own)
        /\ users_exchanges' = Put(users_exchanges, user_id, ExchangesOf(own.exchanges))
        /\ users_indicators' =
              Put(users_indicators, user_id, get_user_indicators(own.indicators))
        /\ users_market_data' =
              IF user_id \in DOMAIN users_market_data THEN users_market_data
              ELSE Put(users_market_data, user_id, market_data)
        /\ update' = [user |-> user_id, command |-> "start", args |-> <<>>,
                      replies |-> <<>>]
        /\ UNCHANGED <<config, market_data, fibonacci, settings, marketframe>>

\* /exchange of a user
exchange_of(user_id, args) ==
    /\ user_id \in DOMAIN users_config
    /\ LET done == exchange_of_user(args, users_exchanges[user_id])
       IN  /\ users_exchanges' = Put(users_exchanges, user_id, done.users_exchanges)
           /\ update' = [user |-> user_id, command |-> "exchange", args |-> args,
                         replies |-> done.replies]
    /\ UNCHANGED <<config, market_data, fibonacci, settings, users_config,
                   users_indicators, users_market_data, marketframe>>

\* /market of a user
market(user_id, args) ==
    /\ user_id \in DOMAIN users_config
    /\ args[1] = "add" => Len(users_config[user_id].market_pairs) < MaxPairs
    /\ LET done == market_command(args, users_market_data[user_id], market_data,
                                  settings, fibonacci, users_config[user_id])
       IN  /\ users_config' = [users_config EXCEPT
                                 ![user_id].market_pairs = done.market_pairs]
           /\ users_market_data' =
                 Put(users_market_data, user_id, done.users_market_data)
           /\ settings' = done.settings
           /\ market_data' = done.market_data
           /\ fibonacci' = done.fibonacci
           /\ update' = [user |-> user_id, command |-> "market", args |-> args,
                         replies |-> done.replies]
    /\ UNCHANGED <<config, users_exchanges, users_indicators, marketframe>>

\* /indicator of a user
indicator(user_id, args) ==
    /\ user_id \in DOMAIN users_config
    /\ LET done == indicator_command(args, users_config[user_id].indicators)
       IN  /\ users_config' =
                 [u \in DOMAIN users_config |->
                     IF u \in OwnConfig(user_id)
                     THEN [users_config[u] EXCEPT !.indicators = done.indicators]
                     ELSE users_config[u]]
           /\ users_indicators' =
                 IF done.applied
                 THEN Put(users_indicators, user_id, get_user_indicators(done.indicators))
                 ELSE users_indicators
           /\ update' = [user |-> user_id, command |-> "indicator", args |-> args,
                         replies |-> done.replies]
    /\ UNCHANGED <<config, market_data, fibonacci, settings, users_exchanges,
                   users_market_data, marketframe>>

MarketNext ==
    \/ \E user_id \in Users : start_of_user(user_id)
    \/ \E user_id \in Users, args \in ExchangeArgs : exchange_of(user_id, args)
    \/ \E user_id \in Users, args \in MarketArgs : market(user_id, args)
    \/ \E user_id \in Users, args \in IndicatorArgs : indicator(user_id, args)

MarketSpec == MarketInit /\ [][MarketNext]_vars

-----------------------------------------------------------------------------
(* notifiers/telegram_client.py: TelegramNotifier.notify under its retry *)

\* The bound of the notifier model: the chunks of a message.
MaxChunks == 2

\* stop=stop_after_attempt(6)
stop_after_attempt == 6

\* What a call of bot.send_message does: it returns, or it raises TimedOut
\* or another error of telegram.
SendOutcomes == {"sent", "TimedOut", "NetworkError"}

\* The lists chunk_message returns for the messages: the chunks in order.
MessageChunks == { [i \in 1..n |-> i] : n \in 1..MaxChunks }

\* retry=retry_if_exception_type(telegram.error.TimedOut)
RetryAnyError(raised) == TRUE
ShouldRetry(raised) == raised = "TimedOut"

\* The decision of the retry decorator after an attempt that raised: the
\* error is raised again unless it is one to retry, RetryError is raised
\* once the attempts are used up, otherwise the body runs again.
AfterRaise(raised, attempt) ==
    IF ~ShouldRetry(raised) THEN [pc |-> "raised", error |-> raised]
    ELSE IF attempt >= stop_after_attempt THEN [pc |-> "raised", error |-> "RetryError"]
    ELSE [pc |-> "sending", error |-> ""]

\* What notify leaves alone.
notifyframe == <<config, market_data, fibonacci, new_results, runvars, poolvars,
                 alarmvars, marketvars>>

NotifyInit ==
    /\ config = PlainConfig
    /\ market_data = [e \in Exchanges |-> Pairs]
    /\ fibonacci = [e \in DOMAIN market_data |-> Range(market_data[e])]
    /\ new_results = EmptyDict
    /\ RunIdle
    /\ PoolIdle
    /\ NoUser
    /\ NotifyIdle

\* notify(message) is called: the first attempt chunks the message.
notify ==
    /\ notify_pc = "idle"
    /\ \E chunks \in MessageChunks : message_chunks' = chunks
    /\ notify_pc' = "sending"
    /\ attempt_number' = 1
    /\ position' = 1
    /\ UNCHANGED <<sent, outcomes, notify_error, notifyframe>>

\* One bot.send_message of the loop over the chunks. When it returns the
\* loop goes on, and the attempt returns after the last chunk; when it
\* raises, the attempt ends and the decorator decides; another attempt
\* starts with the first chunk.
send_message(outcome) ==
    /\ notify_pc = "sending"
    /\ IF outcome = "sent"
       THEN /\ sent' = Append(sent, [attempt |-> attempt_number,
                                     chunk |-> message_chunks[position]])
            /\ IF position < Len(message_chunks)
               THEN /\ position' = position + 1
                    /\ UNCHANGED <<notify_pc, outcomes>>
               ELSE /\ notify_pc' = "returned"
                    /\ outcomes' = Append(outcomes, "returned")
                    /\ UNCHANGED position
            /\ UNCHANGED <<attempt_number, notify_error>>
       ELSE LET next == AfterRaise(outcome, attempt_number)
            IN  /\ outcomes' = Append(outcomes, outcome)
                /\ notify_pc' = next.pc
                /\ notify_error' = next.error
                /\ attempt_number' = IF next.pc = "sending" THEN attempt_number + 1
                                     ELSE attempt_number
                /\ position' = IF next.pc = "sending" THEN 1 ELSE position
                /\ UNCHANGED sent
    /\ UNCHANGED <<message_chunks, notifyframe>>

NotifyNext ==
    \/ notify
    \/ \E outcome \in SendOutcomes : send_message(outcome)

NotifySpec == NotifyInit /\ [][NotifyNext]_vars

-----------------------------------------------------------------------------
(* Properties *)

HotCold == {"hot", "cold"}

CurStatus(k) == EntryAt(new_analysis, k).status
CurConf(k) == EntryAt(new_analysis, k).config
Alerted == AlertedIn(new_messages, new_analysis)

\* The number of messages of entry k in the list of candle period cp.
MessageCount(k, cp) ==
    IF k[1] \in DOMAIN new_messages /\ cp \in DOMAIN new_messages[k[1]]
    THEN Cardinality({ i \in DOMAIN new_messages[k[1]][cp] :
                         /\ new_messages[k[1]][cp][i].indicator = k[3]
                         /\ new_messages[k[1]][cp][i].indicator_number = k[4] })
    ELSE 0

\* The messages phase is over and its messages are about to be returned.
MessagesComplete == pc = "messages" /\ todo = <<>>

\* C1: an entry with alert_frequency once whose status is the same as in the
\* cycle before has no alert message in the second cycle.
C1_OnceSameStatusNoAlert ==
    \A k \in EntryKeys(new_analysis) :
        (/\ CurConf(k).alert_frequency = "once"
         /\ CurStatus(k) # NoStatus
         /\ CurStatus(k) = PrevStatus(k)) => k \notin Alerted

C1_Witness ==
    /\ pc = "done"
    /\ prev_ok
    /\ \E k \in EntryKeys(new_analysis) :
         /\ CurConf(k).alert_frequency = "once"
         /\ CurConf(k).alert_enabled
         /\ CurStatus(k) = "hot"
         /\ PrevStatus(k) = "hot"
         /\ k \notin Alerted

\* C2: in the first cycle, before any status has been stored, an entry with
\* alert_frequency once and alert_enabled that is hot or cold has an alert
\* message in the messages the cycle returns.
C2_FirstCycleAlerts ==
    (MessagesComplete /\ new_results = EmptyDict) =>
        \A k \in EntryKeys(new_analysis) :
            (/\ CurConf(k).alert_frequency = "once"
             /\ CurConf(k).alert_enabled
             /\ CurStatus(k) \in HotCold) => k \in Alerted

\* C3: for an entry with alert_frequency once and alert_enabled whose statuses
\* in consecutive cycles are hot, hot, neutral, hot, the neutral cycle has no
\* alert and stores neutral, and the fourth cycle has an alert.
C3_NeutralRearms ==
    pc = "done" =>
        \A k \in EntryKeys(new_analysis) :
            Watched(CurConf(k)) =>
                /\ (Prog(k) = 2 /\ CurStatus(k) = "neutral") =>
                       /\ k \notin Alerted
                       /\ LookupStatus(last_analysis, exchange, k[1], k[2], k[3], k[4])
                              = "neutral"
                /\ (Prog(k) = 3 /\ CurStatus(k) = "hot") => k \in Alerted

\* C4: the status a cycle stored for an entry is the last_status the next
\* cycle reads for that entry.
C4_BaselineIsPreviousCycle ==
    prev_ok =>
        \A k \in DOMAIN consulted :
            PrevStatus(k) # NoStatus => consulted[k] = PrevStatus(k)

\* C5: an entry with alert_frequency always (and alerts enabled) that is hot
\* or cold in two consecutive cycles has an alert message in the output of
\* both cycles.
C5_AlwaysAlertsBothCycles ==
    (pc = "done" /\ prev_ok) =>
        \A k \in EntryKeys(new_analysis) :
            (/\ CurConf(k).alert_frequency = "always"
             /\ CurConf(k).alert_enabled
             /\ CurStatus(k) \in HotCold
             /\ PrevStatus(k) \in HotCold) => (k \in Alerted /\ k \in prev_alerted)

\* C6: an entry whose status is neutral has no alert message, whatever its
\* alert_frequency and its status in the cycle before.
C6_NeutralNoAlert ==
    \A k \in EntryKeys(new_analysis) :
        CurStatus(k) = "neutral" => k \notin Alerted

C6_Witness ==
    /\ pc = "done"
    /\ \E k \in EntryKeys(new_analysis) :
         /\ CurStatus(k) = "neutral"
         /\ CurConf(k).alert_frequency = "always"
         /\ CurConf(k).alert_enabled
         /\ PrevStatus(k) = "hot"
         /\ k \notin Alerted

\* C7: an entry whose alert_enabled is false has no alert message.
C7_DisabledNoAlert ==
    \A k \in EntryKeys(new_analysis) :
        ~CurConf(k).alert_enabled => k \notin Alerted

C7_Witness ==
    /\ pc = "done"
    /\ \E k \in EntryKeys(new_analysis) :
         /\ ~CurConf(k).alert_enabled
         /\ CurConf(k).alert_frequency = "always"
         /\ CurStatus(k) = "hot"
         /\ k \notin Alerted

\* C8: the message list of a pair and candle period holds exactly one message
\* for each indicator entry of that period that is hot or cold with alerts
\* enabled and alert_frequency always, also when several rules share the
\* period, and none for an entry that is neutral or has alerts disabled.
C8_OneMessagePerQualifyingEntry ==
    pc = "done" =>
        \A k \in EntryKeys(new_analysis) :
            k[2] = "indicators" =>
                /\ (/\ CurConf(k).alert_frequency = "always"
                    /\ CurConf(k).alert_enabled
                    /\ CurStatus(k) \in HotCold)
                       => MessageCount(k, CurConf(k).candle_period) = 1
                /\ (CurStatus(k) \notin HotCold \/ ~CurConf(k).alert_enabled)
                       => MessageCount(k, CurConf(k).candle_period) = 0

\* C9: a crossover entry that is hot or cold with alerts enabled and
\* alert_frequency always raises nothing and has an alert message when the
\* cycle is done.
C9_CrossoverAlertsWithoutFault ==
    \A k \in EntryKeys(new_analysis) :
        (/\ k[2] = "crossovers"
         /\ CurConf(k).alert_frequency = "always"
         /\ CurConf(k).alert_enabled
         /\ CurStatus(k) \in HotCold)
            => (pc # "fault" /\ (pc = "done" => k \in Alerted))

KindRank(kind) ==
    IF kind = "indicators" THEN 1 ELSE IF kind = "informants" THEN 2 ELSE 3

\* The run left _test_strategies through an exception.
AnalysisFaulted ==
    pc = "fault" /\ \E i \in DOMAIN calls : calls[i].call.outcome # ""

\* new_analysis holds the results of the run's analysis.
Analysed == pc \in {"messages", "done"} \/ (pc = "fault" /\ ~AnalysisFaulted)

\* Call i of the run produced the entry that reference (type, name, index)
\* of a crossover of the same pair denotes.
Produces(i, market_pair, type, name, index) ==
    /\ calls[i].market_pair = market_pair
    /\ calls[i].call.kind = type
    /\ calls[i].call.name = name
    /\ calls[i].call.slot = index

\* C11: within a pair the indicators are evaluated before the informants and
\* these before the crossovers; only enabled confs are evaluated; a crossover
\* that is evaluated reads entries that earlier evaluations of the same run
\* and pair produced; and the entries of the analysis are those evaluations.
C11_EvaluationOrder ==
    /\ \A i \in DOMAIN calls :
         LET c == calls[i].call
         IN  /\ c.config.enabled
             /\ \A j \in DOMAIN calls :
                  (i < j /\ calls[i].market_pair = calls[j].market_pair)
                      => KindRank(c.kind) <= KindRank(calls[j].call.kind)
             /\ (c.kind = "crossovers" /\ c.outcome = "") =>
                  /\ \E k \in 1..(i - 1) :
                       Produces(k, calls[i].market_pair, c.config.key_indicator_type,
                                c.config.key_indicator, c.config.key_indicator_index)
                  /\ \E k \in 1..(i - 1) :
                       Produces(k, calls[i].market_pair, c.config.crossed_indicator_type,
                                c.config.crossed_indicator,
                                c.config.crossed_indicator_index)
             /\ Analysed =>
                  LET entries == new_analysis[calls[i].market_pair][c.kind][c.name]
                  IN  c.slot + 1 \in DOMAIN entries /\ entries[c.slot + 1].config = c.config
    /\ Analysed =>
         \A p \in DOMAIN new_analysis :
             \A kind \in DOMAIN new_analysis[p] :
                 \A name \in DOMAIN new_analysis[p][kind] :
                     \A n \in DOMAIN new_analysis[p][kind][name] :
                         \E i \in DOMAIN calls : Produces(i, p, kind, name, n - 1)

C11_Witness ==
    /\ pc = "done"
    /\ \E i \in DOMAIN calls :
         /\ calls[i].call.kind = "crossovers"
         /\ calls[i].call.outcome = ""
         /\ \E j, k \in 1..(i - 1) :
              calls[j].call.kind = "indicators" /\ calls[k].call.kind = "informants"

\* C12: an enabled crossover whose key or crossed reference does not resolve
\* is skipped: the run does not fault and goes on to its messages.
C12_UnresolvedReferenceSkipped ==
    \A i \in DOMAIN calls :
        (calls[i].call.kind = "crossovers" /\ calls[i].call.outcome # "")
            => (pc # "fault" /\ Analysed)

\* C13: a configured name that is in no dispatch table has no evaluation and
\* no result entry, the analysis does not fault because of it, and every
\* enabled conf of a registered indicator or informant whose period has
\* candles is evaluated.
C13_UnknownRuleSkipped ==
    LET unknown == { <<"indicators", n>> : n \in DOMAIN config.indicators \ indicator_dispatcher }
                   \cup { <<"informants", n>> : n \in DOMAIN config.informants \ informant_dispatcher }
                   \cup { <<"crossovers", n>> : n \in DOMAIN config.crossovers \ crossover_dispatcher }
    IN  /\ \A u \in unknown :
             /\ \A i \in DOMAIN calls :
                  ~(calls[i].call.kind = u[1] /\ calls[i].call.name = u[2])
             /\ Analysed => \A p \in DOMAIN new_analysis : new_analysis[p][u[1]][u[2]] = <<>>
        /\ (unknown # {} /\ pc # "idle") =>
             /\ \A p \in DOMAIN all_historical_data :
                  \A kind \in {"indicators", "informants"} :
                      \A n \in (IF kind = "indicators"
                                THEN DOMAIN config.indicators \cap indicator_dispatcher
                                ELSE DOMAIN config.informants \cap informant_dispatcher) :
                          \A x \in DOMAIN config[kind][n] :
                              (/\ config[kind][n][x].enabled
                               /\ config[kind][n][x].candle_period
                                      \in DOMAIN all_historical_data[p])
                                  => \E i \in DOMAIN calls :
                                        /\ calls[i].market_pair = p
                                        /\ calls[i].call.kind = kind
                                        /\ calls[i].call.name = n
                                        /\ calls[i].call.index = x - 1

C13_Witness ==
    /\ pc = "done"
    /\ "no_such_indicator" \in DOMAIN config.indicators
    /\ "no_such_informant" \in DOMAIN config.informants
    /\ "no_such_crossover" \in DOMAIN config.crossovers
    /\ \E k \in Alerted : k[3] = "rsi"

\* C14: an entry whose result is the empty string returned after a TypeError
\* has no message, and the message generation of the cycle does not fault.
C14_TypeErrorResultSkipped ==
    Analysed =>
        \A k \in EntryKeys(new_analysis) :
            EntryAt(new_analysis, k).result = EmptyString
                => (pc # "fault" /\ k \notin Alerted)

\* C15: within one run no (pair, candle period) is requested from the
\* exchange twice, an empty answer included.
C15_FetchedAtMostOnce ==
    \A i, j \in DOMAIN fetched :
        (/\ fetched[i].market_pair = fetched[j].market_pair
         /\ fetched[i].candle_period = fetched[j].candle_period) => i = j

\* C16: when a requested candle period has no data for a pair, no indicator
\* or informant conf of that period is evaluated for the pair, the analysis
\* does not fault, and the enabled confs of registered indicators on periods
\* with data are evaluated.
C16_PeriodWithoutDataSkipped ==
    \A r \in DOMAIN fetched :
        LET p == fetched[r].market_pair
            cp == fetched[r].candle_period
        IN  cp \notin DOMAIN all_historical_data[p] =>
                /\ \A i \in DOMAIN calls :
                     (calls[i].market_pair = p /\ calls[i].call.kind # "crossovers")
                         => calls[i].call.config.candle_period # cp
                /\ ~AnalysisFaulted
                /\ \A n \in DOMAIN config.indicators \cap indicator_dispatcher :
                     \A x \in DOMAIN config.indicators[n] :
                         (/\ config.indicators[n][x].enabled
                          /\ config.indicators[n][x].candle_period
                                 \in DOMAIN all_historical_data[p])
                             => \E i \in DOMAIN calls :
                                   /\ calls[i].market_pair = p
                                   /\ calls[i].call.kind = "indicators"
                                   /\ calls[i].call.name = n
                                   /\ calls[i].call.index = x - 1

\* C17: a request that raised one of the caught exceptions leaves no data for
\* its (pair, period), the run does not fault in its analysis, and the
\* messages of a finished cycle have no list for that pair and period.
C17_FetchFailureContained ==
    \A r \in DOMAIN fetched :
        LET p == fetched[r].market_pair
            cp == fetched[r].candle_period
        IN  fetched[r].outcome \in FetchFailures =>
                /\ cp \notin DOMAIN all_historical_data[p]
                /\ ~AnalysisFaulted
                /\ pc = "done" => (p \in DOMAIN new_messages
                                   /\ cp \notin DOMAIN new_messages[p])

\* C18: after the merge at the end of a cycle, an entry that had a status at
\* the end of the cycle before and is absent from the new run still has that
\* status in last_analysis.
C18_MergeKeepsAbsentEntries ==
    (pc = "done" /\ prev_ok) =>
        \A k \in DOMAIN prev_status :
            k \notin EntryKeys(new_analysis)
                => LookupStatus(last_analysis, exchange, k[1], k[2], k[3], k[4])
                       = prev_status[k]

\* C19: while the entries of a cycle are evaluated, the status last_analysis
\* holds for an entry is the one stored at the end of the cycle before, or
\* none.
C19_HistoryFixedDuringEvaluation ==
    pc = "messages" =>
        \A k \in EntryKeys(new_analysis) :
            LookupStatus(LastAnalysis, exchange, k[1], k[2], k[3], k[4])
                \in {PrevStatus(k), NoStatus}

C23_StoredIndexIsConfiguredIndex ==
    Analysed =>
        \A p \in DOMAIN new_analysis :
            \A kind \in DOMAIN new_analysis[p] :
                \A name \in DOMAIN new_analysis[p][kind] :
                    \A n \in DOMAIN new_analysis[p][kind][name] :
                        /\ n \in DOMAIN config[kind][name]
                        /\ new_analysis[p][kind][name][n].config = config[kind][name][n]

\* C24: a failure of message_template.render for one entry does not end the
\* cycle of the exchange.
C24_RenderFailureDropsOnlyEntry ==
    pc = "fault" => fault # "TemplateError"

\* C25: a message of an entry whose candle period has no ohlcv values has
\* empty prices, one whose period has no lrsi values has an empty lrsi, and
\* no indicator entry faults on a missing key because the values of its
\* period are absent.
C25_CompanionValuesOptional ==
    /\ \A p \in DOMAIN new_messages :
         \A cp \in DOMAIN new_messages[p] :
             \A i \in DOMAIN new_messages[p][cp] :
                 /\ cp \notin DOMAIN ohlcv_values[p]
                        => new_messages[p][cp][i].prices = <<>>
                 /\ cp \notin DOMAIN lrsi_values[p]
                        => new_messages[p][cp][i].lrsi = ""
    /\ (/\ pc = "fault"
        /\ fault = "KeyError"
        /\ todo # <<>>
        /\ Head(todo).indicator_type = "indicators") =>
            LET h == Head(todo)
                conf == new_analysis[h.market_pair]["indicators"][h.indicator][h.index + 1].config
            IN  conf.candle_period \in DOMAIN lrsi_values[h.market_pair]

C25_Witness ==
    /\ pc = "done"
    /\ \E p \in DOMAIN new_messages :
         \E cp \in DOMAIN new_messages[p] :
             /\ new_messages[p][cp] # <<>>
             /\ cp \notin DOMAIN ohlcv_values[p]
             /\ cp \notin DOMAIN lrsi_values[p]
             /\ DOMAIN ohlcv_values[p] # {}
             /\ new_messages[p][cp][1].prices = <<>>
             /\ new_messages[p][cp][1].lrsi = ""

\* C26: when a cycle has returned its messages, the charts requested are
\* those of the pairs and candle periods that have a message in the output.
C26_ChartIffMessage ==
    pc = "done" =>
        \A p \in Range(market_data[exchange]) :
            \A cp \in Periods :
                <<p, cp>> \in charts
                    <=> /\ p \in DOMAIN new_results[exchange]
                        /\ cp \in DOMAIN new_results[exchange][p]
                        /\ Len(new_results[exchange][p][cp]) > 0

C26_Witness ==
    /\ pc = "done"
    /\ \E p \in DOMAIN new_messages :
         \E cp1, cp2 \in DOMAIN new_messages[p] :
             /\ new_messages[p][cp1] # <<>>
             /\ <<p, cp1>> \in charts
             /\ new_messages[p][cp2] = <<>>
             /\ <<p, cp2>> \notin charts

\* C27: in a run whose analysis completed, an enabled conf of a registered
\* informant is evaluated for a pair unless its candle period was requested
\* for the pair and the exchange gave no candles.
C27_InformantsEvaluated ==
    Analysed =>
        \A p \in DOMAIN all_historical_data :
            \A n \in DOMAIN config.informants \cap informant_dispatcher :
                \A x \in DOMAIN config.informants[n] :
                    config.informants[n][x].enabled =>
                        \/ \E i \in DOMAIN calls :
                              /\ calls[i].market_pair = p
                              /\ calls[i].call.kind = "informants"
                              /\ calls[i].call.name = n
                              /\ calls[i].call.index = x - 1
                        \/ \E r \in DOMAIN fetched :
                              /\ fetched[r].market_pair = p
                              /\ fetched[r].candle_period
                                     = config.informants[n][x].candle_period
                              /\ fetched[r].outcome # "candles"

\* C21: load_exchanges does not end by raising the exception of a work
\* item, and when it has ended every work item has finished and each one
\* that returned has its results in new_results.
C21_FailureDoesNotCancelCycle ==
    /\ cycle # "raised"
    /\ cycle = "completed" =>
         \A e \in DOMAIN market_data :
             /\ e \in Finished
             /\ units[e] = "returned" => e \in DOMAIN new_results

\* C22: every exchange of market_data is submitted once in a cycle, and at
\* most max_workers work items run at a time.
C22_OneUnitPerExchangeBoundedPool ==
    /\ Cardinality(Running) <= max_workers
    /\ \A i, j \in DOMAIN submissions : submissions[i] = submissions[j] => i = j
    /\ Range(submissions) = DOMAIN units
    /\ cycle \in {"waiting", "raising", "completed", "raised"}
           => Range(submissions) = DOMAIN market_data

C22_Witness ==
    /\ Cardinality(Running) = max_workers
    /\ \E e \in DOMAIN units : units[e] = "queued"

\* C28: an alarm that runs while one exchange of the user's market data is
\* disabled and another is enabled and has results ends without fault and
\* hands over nothing of the disabled exchange.
C28_DisabledExchangeSkipped ==
    (/\ alarms > 0
     /\ \E e \in DOMAIN users_market_data : e \notin Range(last_alarm.enabled)
     /\ last_alarm.enabled # <<>>
     /\ Range(last_alarm.enabled) \subseteq last_alarm.results) =>
        /\ last_alarm.fault = ""
        /\ \A i \in DOMAIN last_alarm.handed :
               DOMAIN last_alarm.handed[i] \subseteq Range(last_alarm.enabled)

\* C29: in one alarm invocation the group of an exchange, with a message in
\* it, is in at most one of the dicts handed to the notifier.
C29_GroupHandedOncePerAlarm ==
    \A e \in Exchanges :
        Cardinality({ i \in DOMAIN last_alarm.handed :
                        /\ e \in DOMAIN last_alarm.handed[i]
                        /\ HasMessage(last_alarm.handed[i][e]) }) <= 1

\* C30: the messages a cycle stored for an exchange are handed over by at
\* most one alarm invocation.
C30_CycleMessagesDeliveredOnce ==
    \A k \in DOMAIN delivered : delivered[k] <= 1

\* C31: an alarm that runs while every exchange of the user's market data is
\* enabled and one of them has no stored results yet ends without fault and
\* hands over nothing of that exchange.
C31_AlarmBeforeFirstResults ==
    (/\ alarms > 0
     /\ Range(last_alarm.enabled) = DOMAIN users_market_data
     /\ \E e \in Range(last_alarm.enabled) : e \notin last_alarm.results) =>
        /\ last_alarm.fault = ""
        /\ \A i \in DOMAIN last_alarm.handed :
               DOMAIN last_alarm.handed[i] \subseteq last_alarm.results

\* C32: whatever /timeout and /unset commands the chat has seen, at most one
\* job is in the job queue and it is the job recorded in chat_data, and after
\* an /unset that removed a timer no job is left in the queue.
C32_OneRecordedJobPerChat ==
    /\ Cardinality(jobs) <= 1
    /\ \A job \in jobs : job_id \in DOMAIN chat_data /\ chat_data[job_id] = job
    /\ (last_command.name = "unset" /\ last_command.reply = TimerUnset) => jobs = {}

\* C33: a /timeout whose argument is missing, not an integer or negative, and
\* an /unset without a recorded timer, leave the job queue and chat_data as
\* they found them.
C33_RefusedCommandChangesNothing ==
    (\/ /\ last_command.name = "timeout"
        /\ last_command.args \in {<<>>, <<Word>>, <<MinusFive>>}
     \/ /\ last_command.name = "unset"
        /\ job_id \notin DOMAIN last_command.chat_data) =>
        /\ jobs = last_command.jobs
        /\ chat_data = last_command.chat_data

C33_Witness ==
    /\ last_command.name = "timeout"
    /\ last_command.args = <<MinusFive>>
    /\ last_command.reply = TimeoutRefused
    /\ job_id \in DOMAIN chat_data
    /\ jobs # {}

\* C34: a /market add of a pair that no exchange lists changes neither the
\* user's market_pairs and market data nor the global market_pairs, market
\* data and fibonacci table.
C34_UnknownPairRejected ==
    [][(update'.command = "market" /\ update'.args = <<"add", "foo", "usdt">>) =>
          /\ users_config'[update'.user].market_pairs
                = users_config[update'.user].market_pairs
          /\ users_market_data'[update'.user] = users_market_data[update'.user]
          /\ settings' = settings
          /\ market_data' = market_data
          /\ fibonacci' = fibonacci]_vars

\* C35: a /market remove of a pair that is not in the user's market_pairs
\* changes neither the user's market_pairs nor the user's market data, and
\* none of its replies reports a removal.
C35_AbsentPairNotRemoved ==
    [][(/\ update'.command = "market"
        /\ \/ /\ update'.args = <<"remove", "ltc", "usdt">>
              /\ "LTC/USDT" \notin Range(users_config[update'.user].market_pairs)
           \/ /\ update'.args = <<"remove", "foo", "usdt">>
              /\ "FOO/USDT" \notin Range(users_config[update'.user].market_pairs)) =>
          /\ users_config'[update'.user].market_pairs
                = users_config[update'.user].market_pairs
          /\ users_market_data'[update'.user] = users_market_data[update'.user]
          /\ MarketRemoved \notin Range(update'.replies)]_vars

C35_Witness ==
    /\ update.command = "market"
    /\ update.args = <<"remove", "ltc", "usdt">>
    /\ MarketNotListed \in Range(update.replies)
    /\ "FOO/USDT" \in Range(users_config[update.user].market_pairs)

\* C36: every pair of every exchange of the global market data has an entry
\* in the fibonacci table.
C36_FibonacciCoversMarketData ==
    \A e \in DOMAIN market_data : \A p \in Range(market_data[e]) :
        e \in DOMAIN fibonacci /\ p \in fibonacci[e]

\* C37: an /indicator, an /exchange or a /market remove of one user changes
\* no other user's config, indicators, exchanges or market data, and does
\* not change the global config.
C37_UsersIsolated ==
    [][(\/ update'.command \in {"indicator", "exchange"}
        \/ update'.command = "market" /\ update'.args[1] = "remove") =>
          /\ \A other \in DOMAIN users_config \ {update'.user} :
                /\ users_config'[other] = users_config[other]
                /\ users_indicators'[other] = users_indicators[other]
                /\ users_exchanges'[other] = users_exchanges[other]
                /\ users_market_data'[other] = users_market_data[other]
          /\ config' = config]_vars

C37_Witness ==
    /\ update.command = "indicator"
    /\ update.replies = <<IndicatorApplied>>
    /\ \E other \in DOMAIN users_config \ {update.user} :
          /\ users_indicators[other] # users_indicators[update.user]
          /\ users_config[other].indicators # users_config[update.user].indicators

\* C38: notify runs at most six attempts; every attempt but the last one
\* raised TimedOut, so that the call ends with the first attempt that returns
\* or raises another error; and a call that returned has sent, in its last
\* attempt, the chunks of the message in their order.
C38_RetryOnTimedOutAtMostSixTimes ==
    /\ attempt_number <= 6
    /\ Len(outcomes) <= 6
    /\ \A i \in 1..(Len(outcomes) - 1) : outcomes[i] = "TimedOut"
    /\ notify_pc = "sending" => \A i \in DOMAIN outcomes : outcomes[i] = "TimedOut"
    /\ notify_pc = "returned" =>
          LET last == SelectSeq(sent, LAMBDA s : s.attempt = Len(outcomes))
          IN  [i \in DOMAIN last |-> last[i].chunk] = message_chunks

C38_Witness ==
    /\ notify_pc = "returned"
    /\ Len(outcomes) = 6
    /\ Len(message_chunks) = 2
    /\ Len(sent) > Len(message_chunks)

====
